---- MODULE Spec2Model ----
(* Model of the webcam part of MoonrakerConnectorViewModel                  *)
(* (static/js/moonraker_connector.js): the adaptive snapshot poller and the *)
(* rate estimator of the cam objects built by fromResponse, the data        *)
(* requests that build them, and the browser's clock, timer queue and image *)
(* loads that drive them.  Times are integer milliseconds.                  *)
EXTENDS Integers, Sequences, FiniteSets, Bags, TLC

(* ------------------------------ bounds ---------------------------------- *)
\* the clock stops advancing at MaxTime
MaxTime == 1200
\* cam objects built by fromResponse over a run
MaxCams == 2
\* data requests outstanding at once
MaxRequests == 2
\* webcams carried by one response
MaxWebcams == 2
\* cam objects built over an unbounded run
LiveCams == 1

(* ------------------------ values of the inputs -------------------------- *)
\* the delay snapshotRefreshed falls back to (ms)
MinDelay == 100
\* the period of the rate estimator (ms)
FpsPeriod == 1000
\* granularity of the clock (ms)
TimeStep == 2 * MinDelay
\* a due timer runs before the clock is later than its due time by this
MaxLate == TimeStep
\* rate values a response carries; 0 stands for every falsy value
\* (0, null, a missing field).  The non-zero ones divide 1000, so that
\* 1000.0 * (1.0 / rate) is an integer number of milliseconds.
Rates == {0, 4, 5}
Adaptive == "mjpegstreamer-adaptive"
Services == {"mjpegstreamer", Adaptive}
\* base URLs, as sequences of characters: two with a query, one without
SnapshotQuery == <<"/", "c", "?", "a", "=", "s">>
StreamQuery == <<"/", "c", "?", "a", "=", "v">>
SnapshotPlain == <<"/", "s", ".", "j", "p", "g">>

\* the webcam entries of a response (response.webcams[i])
WebcamPool ==
    {[enabled |-> TRUE, service |-> Adaptive,
      target_fps |-> 5, target_fps_idle |-> 4,
      snapshot_url |-> SnapshotQuery, stream_url |-> StreamQuery],
     [enabled |-> TRUE, service |-> Adaptive,
      target_fps |-> 5, target_fps_idle |-> 0,
      snapshot_url |-> SnapshotPlain, stream_url |-> StreamQuery],
     [enabled |-> TRUE, service |-> Adaptive,
      target_fps |-> 0, target_fps_idle |-> 4,
      snapshot_url |-> SnapshotPlain, stream_url |-> StreamQuery],
     [enabled |-> TRUE, service |-> "mjpegstreamer",
      target_fps |-> 0, target_fps_idle |-> 0,
      snapshot_url |-> SnapshotQuery, stream_url |-> StreamQuery],
     [enabled |-> FALSE, service |-> Adaptive,
      target_fps |-> 5, target_fps_idle |-> 4,
      snapshot_url |-> SnapshotQuery, stream_url |-> StreamQuery]}

\* the response is JSON and fromResponse validates nothing: the entries of
\* a response whose printing rate is negative
SignedPool ==
    {[enabled |-> TRUE, service |-> Adaptive,
      target_fps |-> 0 - 5, target_fps_idle |-> 4,
      snapshot_url |-> SnapshotPlain, stream_url |-> StreamQuery]}
SignedResponses == {<<>>} \cup {<<w>> : w \in SignedPool}

Responses == UNION {[1..n -> WebcamPool] : n \in 0..MaxWebcams}

(* --------------------------- JavaScript values -------------------------- *)
\* an optional timestamp: <<>> is undefined, <<t>> is the number t
Undefined == <<>>
Some(t) == <<t>>
\* a JavaScript number that is the result of count / diff
NaN == [kind |-> "NaN", num |-> 0, den |-> 1]
NoNumber == [kind |-> "undefined", num |-> 0, den |-> 1]
Infinity == [kind |-> "Infinity", num |-> 0, den |-> 1]
\* the finite number num / den (den > 0)
Number(num, den) == [kind |-> "number", num |-> num, den |-> den]

VARIABLES
    now,            \* new Date().getTime()
    cameraVisible,  \* self.cameraVisible()
    isPrinting,     \* self.printerState.isPrinting()
    webcams,        \* self.webcams(): a sequence of cam ids
    cams,           \* every cam object built so far, by id
    timers,         \* the browser's pending setTimeout calls (a bag)
    loading,        \* cams whose image element has a load in flight
    requests,       \* data requests whose response is outstanding
    completions,    \* history: per cam, the completion callbacks received
    atTick,         \* history: per cam, completions at its most recent tick
    windowed,       \* history: per cam, the sum of the counts read by ticks
    dialog,         \* the command of the open confirmation dialog, or "none"
    commands,       \* the API commands sent, each with its reply once it has one
    notifications   \* the PNotify notifications created, in order

\* the variables of the webcam part and those of the restart buttons
webcamVars == <<now, cameraVisible, isPrinting, webcams, cams, timers, loading,
                requests, completions, atTick, windowed>>
restartVars == <<dialog, commands, notifications>>
vars == <<webcamVars, restartVars>>

CamIds == 1..Len(cams)

(* ------------------------------ the cam --------------------------------- *)
\* activeFpsTarget without the visibility check
ActiveFpsTargetIgnoringVisibility(w, visible, printing) ==
    IF w.target_fps = 0 \/ w.target_fps_idle = 0 THEN 0
    ELSE IF printing THEN w.target_fps
    ELSE w.target_fps_idle

\* activeFpsTarget with the two rates swapped
ActiveFpsTargetSwapped(w, visible, printing) ==
    IF w.target_fps = 0 \/ w.target_fps_idle = 0 THEN 0
    ELSE IF ~visible THEN 0
    ELSE IF printing THEN w.target_fps_idle
    ELSE w.target_fps

\* cam.activeFpsTarget of a cam built from webcam w
ActiveFpsTargetOf(w, visible, printing) ==
    IF w.target_fps = 0 \/ w.target_fps_idle = 0 THEN 0
    ELSE IF ~visible THEN 0
    ELSE IF printing THEN w.target_fps
    ELSE w.target_fps_idle

ActiveFpsTarget(c) ==
    ActiveFpsTargetOf(cams[c].webcam, cameraVisible, isPrinting)

\* 1000.0 * (1.0 / activeFpsTarget)
FullDelay(r) == IF r > 0 THEN 1000 \div r ELSE 0 - (1000 \div (0 - r))

\* the delay with a floor of MinDelay under the rest of the period
DelayFloored(fullDelay, timeSpent) ==
    IF fullDelay - timeSpent > MinDelay THEN fullDelay - timeSpent
    ELSE MinDelay

\* the delay without the fallback: the rest of the period, whatever its sign
DelayDifference(fullDelay, timeSpent) == fullDelay - timeSpent

\* the delay snapshotRefreshed passes to setTimeout
Delay(fullDelay, timeSpent) ==
    IF fullDelay > timeSpent THEN fullDelay - timeSpent ELSE MinDelay

\* count / diff with the division of diff by 1000.0 left out
QuotientMs(count, t, lastUpdate) ==
    IF lastUpdate = Undefined THEN NaN
    ELSE IF t - lastUpdate[1] = 0
         THEN (IF count = 0 THEN NaN ELSE Infinity)
         ELSE Number(count, t - lastUpdate[1])

\* count / diff with a missing tick time read as 0
QuotientFromZero(count, t, lastUpdate) ==
    LET from == IF lastUpdate = Undefined THEN 0 ELSE lastUpdate[1]
    IN  IF t - from = 0
        THEN (IF count = 0 THEN NaN ELSE Infinity)
        ELSE Number(count * 1000, t - from)

\* count / diff with diff = (now - lastUpdate) / 1000.0
Quotient(count, t, lastUpdate) ==
    IF lastUpdate = Undefined THEN NaN
    ELSE IF t - lastUpdate[1] = 0
         THEN (IF count = 0 THEN NaN ELSE Infinity)
         ELSE Number(count * 1000, t - lastUpdate[1])

\* a setTimeout(fn, delay) issued at time t
Timer(fn, c, t, delay) ==
    [fn |-> fn, cam |-> c, due |-> t + delay, delay |-> delay]

\* the cam object literal, before the adaptive members are added
NewCam(w) ==
    [webcam |-> w, cacheBuster |-> Undefined, adaptive |-> FALSE,
     count |-> 0, lastFpsUpdate |-> Undefined, currentFps |-> NoNumber,
     refreshRequested |-> Undefined]

\* the decimal digits of a number, as characters
DigitChars == <<"0", "1", "2", "3", "4", "5", "6", "7", "8", "9">>
RECURSIVE Digits(_)
Digits(n) ==
    IF n < 10 THEN <<DigitChars[n + 1]>>
    ELSE Digits(n \div 10) \o <<DigitChars[(n % 10) + 1]>>

\* `${cacheBuster}`: the text a template literal makes of the value
TemplateText(v) ==
    IF v = Undefined THEN <<"u", "n", "d", "e", "f", "i", "n", "e", "d">>
    ELSE Digits(v[1])

\* url.indexOf(ch) !== -1
Contains(url, ch) == \E i \in 1..Len(url) : url[i] = ch

\* cam.url with "?_=" appended whatever the base URL holds
UrlAlwaysQuery(cam) ==
    LET url == IF cam.webcam.service = "mjpegstreamer"
               THEN cam.webcam.stream_url
               ELSE cam.webcam.snapshot_url
    IN  url \o <<"?", "_", "=">> \o TemplateText(cam.cacheBuster)

\* cam.url, of a cam whose service is one of the two of the switch
Url(cam) ==
    LET url == IF cam.webcam.service = "mjpegstreamer"
               THEN cam.webcam.stream_url
               ELSE cam.webcam.snapshot_url
    IN  IF Contains(url, "?")
        THEN url \o <<"&", "_", "=">> \o TemplateText(cam.cacheBuster)
        ELSE url \o <<"?", "_", "=">> \o TemplateText(cam.cacheBuster)

\* the adaptive members as initialised.  cam.lastRefresh is never written,
\* and cam.timeout, the handle of the last poll timer, is never read: the
\* pending timer itself is in timers.
WithAdaptive(cam) ==
    [cam EXCEPT !.adaptive = TRUE, !.count = 0,
                !.lastFpsUpdate = Undefined, !.currentFps = NoNumber,
                !.refreshRequested = Undefined]

\* refreshSnapshot without the check of the target rate
RefreshSnapshotAlways(cam, target, t) ==
    [cam EXCEPT !.refreshRequested = Some(t), !.cacheBuster = Some(t)]

\* refreshSnapshot without the write of the request timestamp
RefreshSnapshotNoStamp(cam, target, t) ==
    IF target = 0 THEN cam
    ELSE [cam EXCEPT !.cacheBuster = Some(t)]

\* cam.refreshSnapshot, on the cam object
RefreshSnapshot(cam, target, t) ==
    IF target = 0 THEN cam
    ELSE [cam EXCEPT !.refreshRequested = Some(t), !.cacheBuster = Some(t)]

\* snapshotRefreshed with count++ after the early returns
SnapshotRefreshedLate(cam) ==
    IF cam.refreshRequested = Undefined THEN cam
    ELSE [cam EXCEPT !.count = cam.count + 1]

\* cam.snapshotRefreshed, on the cam object
SnapshotRefreshed(cam) == [cam EXCEPT !.count = cam.count + 1]

\* snapshotRefreshed without the check of refreshRequested: the time spent
\* is then NaN, no comparison with it is true, and the delay is MinDelay
SnapshotRefreshedTimersUnchecked(c, cam, target, t) ==
    IF target = 0 THEN EmptyBag
    ELSE IF cam.refreshRequested = Undefined
         THEN SetToBag({Timer("refreshSnapshot", c, t, MinDelay)})
    ELSE SetToBag({Timer("refreshSnapshot", c, t,
                         Delay(FullDelay(target), t - cam.refreshRequested[1]))})

\* snapshotRefreshed scheduling the next fetch twice
SnapshotRefreshedTimersTwice(c, cam, target, t) ==
    IF target = 0 THEN EmptyBag
    ELSE IF cam.refreshRequested = Undefined THEN EmptyBag
    ELSE LET tm == Timer("refreshSnapshot", c, t,
                         Delay(FullDelay(target), t - cam.refreshRequested[1]))
         IN  SetToBag({tm}) (+) SetToBag({tm})

\* snapshotRefreshed that leaves the next fetch to someone else
SnapshotRefreshedTimersNone(c, cam, target, t) == EmptyBag

\* the timers cam.snapshotRefreshed schedules
SnapshotRefreshedTimers(c, cam, target, t) ==
    IF target = 0 THEN EmptyBag
    ELSE IF cam.refreshRequested = Undefined THEN EmptyBag
    ELSE SetToBag({Timer("refreshSnapshot", c, t,
                         Delay(FullDelay(target), t - cam.refreshRequested[1]))})

\* updateFps with a watchdog: a window without a completion re-issues the fetch
UpdateFpsWatchdog(cam, t) ==
    [cam EXCEPT !.count = 0,
                !.currentFps = Quotient(cam.count, t, cam.lastFpsUpdate),
                !.lastFpsUpdate = Some(t),
                !.refreshRequested =
                    IF cam.count = 0 THEN Some(t) ELSE cam.refreshRequested,
                !.cacheBuster =
                    IF cam.count = 0 THEN Some(t) ELSE cam.cacheBuster]

\* cam.updateFps, on the cam object
UpdateFps(cam, t) ==
    [cam EXCEPT !.count = 0,
                !.currentFps = Quotient(cam.count, t, cam.lastFpsUpdate),
                !.lastFpsUpdate = Some(t)]

\* isNaN(fps)
IsNaN(fps) == fps.kind \in {"NaN", "undefined"}

\* num / den with its fraction cut off
RoundDown(num, den) == num \div den

\* the integer nearest to num / den, the larger one of two (toFixed(0))
Round(num, den) == (2 * num + den) \div (2 * den)

\* snapshotFps with a truthiness test in place of isNaN
SnapshotFpsFalsy(fps) ==
    IF IsNaN(fps) \/ (fps.kind = "number" /\ fps.num = 0) THEN "- fps"
    ELSE IF fps.kind = "Infinity" THEN "Infinity fps"
    ELSE ToString(Round(fps.num, fps.den)) \o " fps"

\* cam.snapshotFps, of the value of cam.currentFps
SnapshotFps(fps) ==
    IF IsNaN(fps) THEN "- fps"
    ELSE IF fps.kind = "Infinity" THEN "Infinity fps"
    ELSE ToString(Round(fps.num, fps.den)) \o " fps"

\* updateFps rescheduling itself only while its cam is the listed one
UpdateFpsTimersListed(c, t) ==
    IF c \in 1..Len(cams) /\ webcams # <<c>> THEN EmptyBag
    ELSE SetToBag({Timer("updateFps", c, t, FpsPeriod)})

\* the timer cam.updateFps schedules
UpdateFpsTimers(c, t) == SetToBag({Timer("updateFps", c, t, FpsPeriod)})

(* ------------------------------- Init ----------------------------------- *)
Init ==
    /\ now = 0
    /\ cameraVisible = FALSE
    /\ isPrinting \in BOOLEAN
    /\ webcams = <<>>
    /\ cams = <<>>
    /\ timers = EmptyBag
    /\ loading = {}
    /\ requests = 0
    /\ completions = <<>>
    /\ atTick = <<>>
    /\ windowed = <<>>
    /\ dialog = "none"
    /\ commands = <<>>
    /\ notifications = <<>>

(* ----------------------------- view model ------------------------------- *)
\* self.webcamAvailable
WebcamAvailable == Len(webcams) > 0

\* self.requestData: one more data request is outstanding
RequestData == requests' = requests + 1

OnWebcamRefresh ==
    /\ requests < MaxRequests
    /\ RequestData
    /\ UNCHANGED <<now, cameraVisible, isPrinting, webcams, cams, timers,
                   loading, completions, atTick, windowed>>

\* onWebcamVisibilityChange without its requestData call
OnWebcamVisibilityChangeSilent(visible) ==
    /\ cameraVisible' = visible
    /\ UNCHANGED <<now, isPrinting, webcams, cams, timers, loading, requests,
                   completions, atTick, windowed>>

OnWebcamVisibilityChange(visible) ==
    /\ requests < MaxRequests
    /\ cameraVisible' = visible
    /\ RequestData
    /\ UNCHANGED <<now, isPrinting, webcams, cams, timers, loading,
                   completions, atTick, windowed>>

\* onUserLoggedIn = onUserLoggedOut = onEventConnected = onEventDisconnected
OnUserLoggedIn ==
    /\ requests < MaxRequests
    /\ RequestData
    /\ UNCHANGED <<now, cameraVisible, isPrinting, webcams, cams, timers,
                   loading, completions, atTick, windowed>>

\* the host's printer state changes
PrintingChanges ==
    /\ isPrinting' = ~isPrinting
    /\ UNCHANGED <<now, cameraVisible, webcams, cams, timers, loading,
                   requests, completions, atTick, windowed>>

\* the webcams of a response, unfiltered
EnabledUnfiltered(response) == response

\* response.webcams.filter((webcam) => webcam.enabled)
Enabled(response) == SelectSeq(response, LAMBDA w : w.enabled)

\* fromResponse keeping a list that already holds a cam
FromResponseKeepsList(response) ==
    LET enabled == Enabled(response) IN
    IF Len(enabled) = 0
    THEN /\ webcams' = <<>>
         /\ loading' = {}
         /\ UNCHANGED <<cams, timers, completions, atTick, windowed>>
    ELSE LET webcam == enabled[1]
             c == Len(cams) + 1
             target == ActiveFpsTargetOf(webcam, cameraVisible, isPrinting)
             cam == NewCam(webcam)
         IN  /\ Len(cams) < MaxCams
             /\ IF webcam.service = Adaptive
                THEN /\ cams' = Append(cams,
                          UpdateFps(RefreshSnapshot(WithAdaptive(cam),
                                                    target, now), now))
                     /\ timers' = timers (+) UpdateFpsTimers(c, now)
                ELSE /\ cams' = Append(cams, cam)
                     /\ timers' = timers
             /\ webcams' = IF webcams = <<>> THEN <<c>> ELSE webcams
             /\ loading' = IF webcams = <<>> /\ webcam.service = Adaptive
                           THEN {c} ELSE loading
             /\ completions' = Append(completions, 0)
             /\ atTick' = Append(atTick, 0)
             /\ windowed' = Append(windowed, 0)

\* fromResponse adding the adaptive members whatever the service
FromResponseAnyService(response) ==
    LET enabled == Enabled(response) IN
    IF Len(enabled) = 0
    THEN /\ webcams' = <<>>
         /\ loading' = {}
         /\ UNCHANGED <<cams, timers, completions, atTick, windowed>>
    ELSE LET webcam == enabled[1]
             c == Len(cams) + 1
             target == ActiveFpsTargetOf(webcam, cameraVisible, isPrinting)
             cam == NewCam(webcam)
         IN  /\ Len(cams) < MaxCams
             /\ cams' = Append(cams,
                          UpdateFps(RefreshSnapshot(WithAdaptive(cam),
                                                    target, now), now))
             /\ timers' = timers (+) UpdateFpsTimers(c, now)
             /\ loading' = {c}
             /\ webcams' = <<c>>
             /\ completions' = Append(completions, 0)
             /\ atTick' = Append(atTick, 0)
             /\ windowed' = Append(windowed, 0)

\* self.fromResponse
FromResponse(response) ==
    LET enabled == Enabled(response) IN
    IF Len(enabled) = 0
    THEN /\ webcams' = <<>>
         /\ loading' = {}
         /\ UNCHANGED <<cams, timers, completions, atTick, windowed>>
    ELSE LET webcam == enabled[1]
             c == Len(cams) + 1
             target == ActiveFpsTargetOf(webcam, cameraVisible, isPrinting)
             cam == NewCam(webcam)
         IN  /\ Len(cams) < MaxCams
             /\ IF webcam.service = Adaptive
                THEN /\ cams' = Append(cams,
                          UpdateFps(RefreshSnapshot(WithAdaptive(cam),
                                                    target, now), now))
                     /\ timers' = timers (+) UpdateFpsTimers(c, now)
                     /\ loading' = {c}
                ELSE /\ cams' = Append(cams, cam)
                     /\ timers' = timers
                     /\ loading' = {}
             /\ webcams' = <<c>>
             /\ completions' = Append(completions, 0)
             /\ atTick' = Append(atTick, 0)
             /\ windowed' = Append(windowed, 0)

\* the data request's done(self.fromResponse)
DataResponse(response) ==
    /\ requests > 0
    /\ requests' = requests - 1
    /\ FromResponse(response)
    /\ UNCHANGED <<now, cameraVisible, isPrinting>>

\* a failing data request that cancels the pending timers
DataRequestFailsCancels ==
    /\ requests > 0
    /\ requests' = requests - 1
    /\ timers' = EmptyBag
    /\ UNCHANGED <<now, cameraVisible, isPrinting, webcams, cams,
                   loading, completions, atTick, windowed>>

\* a data request that fails: done() does not run
DataRequestFails ==
    /\ requests > 0
    /\ requests' = requests - 1
    /\ UNCHANGED <<now, cameraVisible, isPrinting, webcams, cams, timers,
                   loading, completions, atTick, windowed>>

(* ------------------------------ browser --------------------------------- *)
\* the clock advances.  It starts with the first cam (nothing reads it
\* before), and a due timer is at most MaxLate late.
Tick ==
    /\ now + TimeStep <= MaxTime
    /\ cams # <<>>
    /\ \A tm \in BagToSet(timers) : now + TimeStep <= tm.due + MaxLate
    /\ now' = now + TimeStep
    /\ UNCHANGED <<cameraVisible, isPrinting, webcams, cams, timers, loading,
                   requests, completions, atTick, windowed>>

\* the poll timer as an interval: firing does not use it up
PollTimerFiresInterval(tm) ==
    /\ BagIn(tm, timers)
    /\ tm.fn = "refreshSnapshot"
    /\ tm.due <= now
    /\ LET c == tm.cam IN
       /\ cams' = [cams EXCEPT
                     ![c] = RefreshSnapshot(cams[c], ActiveFpsTarget(c), now)]
       /\ timers' = timers
       /\ loading' = IF ActiveFpsTarget(c) # 0 /\ webcams = <<c>>
                     THEN loading \cup {c} ELSE loading
    /\ UNCHANGED <<now, cameraVisible, isPrinting, webcams, requests,
                   completions, atTick, windowed>>

\* a due setTimeout(cam.refreshSnapshot, delay) runs
PollTimerFires(tm) ==
    /\ BagIn(tm, timers)
    /\ tm.fn = "refreshSnapshot"
    /\ tm.due <= now
    /\ LET c == tm.cam IN
       /\ cams' = [cams EXCEPT
                     ![c] = RefreshSnapshot(cams[c], ActiveFpsTarget(c), now)]
       /\ timers' = timers (-) SetToBag({tm})
       /\ loading' = IF ActiveFpsTarget(c) # 0 /\ webcams = <<c>>
                     THEN loading \cup {c} ELSE loading
    /\ UNCHANGED <<now, cameraVisible, isPrinting, webcams, requests,
                   completions, atTick, windowed>>

\* a due setTimeout(cam.updateFps, 1000.0) runs
FpsTimerFires(tm) ==
    /\ BagIn(tm, timers)
    /\ tm.fn = "updateFps"
    /\ tm.due <= now
    /\ LET c == tm.cam IN
       /\ cams' = [cams EXCEPT ![c] = UpdateFps(cams[c], now)]
       /\ timers' = (timers (-) SetToBag({tm})) (+) UpdateFpsTimers(c, now)
       /\ windowed' = [windowed EXCEPT ![c] = windowed[c] + cams[c].count]
       /\ atTick' = [atTick EXCEPT ![c] = completions[c]]
    /\ UNCHANGED <<now, cameraVisible, isPrinting, webcams, loading,
                   requests, completions>>

\* the image of the listed cam finishes loading: cam.snapshotRefreshed runs.
\* A load is in flight for the listed cam from the moment the list shows it
\* and from every change of its url (its cache-buster).
ImageLoaded(c) ==
    /\ c \in loading
    /\ loading' = loading \ {c}
    /\ cams' = [cams EXCEPT ![c] = SnapshotRefreshed(cams[c])]
    /\ timers' = timers (+)
                 SnapshotRefreshedTimers(c, cams[c], ActiveFpsTarget(c), now)
    /\ completions' = [completions EXCEPT ![c] = completions[c] + 1]
    /\ UNCHANGED <<now, cameraVisible, isPrinting, webcams, requests,
                   atTick, windowed>>

\* the image load fails or is dropped: no completion callback runs
ImageLoadFails(c) ==
    /\ c \in loading
    /\ loading' = loading \ {c}
    /\ UNCHANGED <<now, cameraVisible, isPrinting, webcams, cams, timers,
                   requests, completions, atTick, windowed>>

Next ==
    \/ OnWebcamRefresh /\ UNCHANGED restartVars
    \/ \E visible \in BOOLEAN : OnWebcamVisibilityChange(visible)
          /\ UNCHANGED restartVars
    \/ OnUserLoggedIn /\ UNCHANGED restartVars
    \/ PrintingChanges /\ UNCHANGED restartVars
    \/ \E response \in Responses : DataResponse(response)
          /\ UNCHANGED restartVars
    \/ DataRequestFails /\ UNCHANGED restartVars
    \/ Tick /\ UNCHANGED restartVars
    \/ \E tm \in BagToSet(timers) : PollTimerFires(tm)
          /\ UNCHANGED restartVars
    \/ \E tm \in BagToSet(timers) : FpsTimerFires(tm) /\ UNCHANGED restartVars
    \/ \E c \in loading : ImageLoaded(c) /\ UNCHANGED restartVars
    \/ \E c \in loading : ImageLoadFails(c) /\ UNCHANGED restartVars

Spec == Init /\ [][Next]_vars

\* the view model at one instant: the requests, their responses and the
\* image loads, with the clock standing (no timer comes due)
NextData ==
    \/ OnWebcamRefresh /\ UNCHANGED restartVars
    \/ \E visible \in BOOLEAN : OnWebcamVisibilityChange(visible)
          /\ UNCHANGED restartVars
    \/ OnUserLoggedIn /\ UNCHANGED restartVars
    \/ PrintingChanges /\ UNCHANGED restartVars
    \/ \E response \in Responses : DataResponse(response)
          /\ UNCHANGED restartVars
    \/ DataRequestFails /\ UNCHANGED restartVars
    \/ \E c \in loading : ImageLoaded(c) /\ UNCHANGED restartVars
    \/ \E c \in loading : ImageLoadFails(c) /\ UNCHANGED restartVars

SpecData == Init /\ [][NextData]_vars

\* the same program, fed responses with a negative rate
NextSigned ==
    \/ OnWebcamRefresh /\ UNCHANGED restartVars
    \/ \E visible \in BOOLEAN : OnWebcamVisibilityChange(visible)
          /\ UNCHANGED restartVars
    \/ OnUserLoggedIn /\ UNCHANGED restartVars
    \/ PrintingChanges /\ UNCHANGED restartVars
    \/ \E response \in SignedResponses : DataResponse(response)
          /\ UNCHANGED restartVars
    \/ DataRequestFails /\ UNCHANGED restartVars
    \/ Tick /\ UNCHANGED restartVars
    \/ \E tm \in BagToSet(timers) : PollTimerFires(tm)
          /\ UNCHANGED restartVars
    \/ \E tm \in BagToSet(timers) : FpsTimerFires(tm) /\ UNCHANGED restartVars
    \/ \E c \in loading : ImageLoaded(c) /\ UNCHANGED restartVars
    \/ \E c \in loading : ImageLoadFails(c) /\ UNCHANGED restartVars

SpecSigned == Init /\ [][NextSigned]_vars

(* ------------ the unbounded run, for claims about what recurs ----------- *)
\* The program reads the clock only to take differences (and to print it in
\* a URL), so a run of any length is followed on a clock that is set back
\* by one estimator period, with every timestamp, whenever it would pass
\* MaxTime.  A timestamp older than LiveFloor stays there: it is then older
\* than every period 1000/r, and the delay computed from it is MinDelay
\* either way.  The history variables are not advanced.
LiveFloor == 0 - MaxTime
SetBack(v) ==
    IF v = Undefined THEN Undefined
    ELSE IF v[1] - FpsPeriod < LiveFloor THEN Some(LiveFloor)
    ELSE Some(v[1] - FpsPeriod)
SetBackCam(cam) ==
    [cam EXCEPT !.cacheBuster = SetBack(cam.cacheBuster),
                !.refreshRequested = SetBack(cam.refreshRequested),
                !.lastFpsUpdate = SetBack(cam.lastFpsUpdate)]
SetBackTimer(tm) == [tm EXCEPT !.due = tm.due - FpsPeriod]

\* responses whose first enabled webcam is adaptive with both rates set
LiveResponses ==
    {response \in Responses :
        /\ Len(Enabled(response)) > 0
        /\ Enabled(response)[1].service = Adaptive
        /\ Enabled(response)[1].target_fps # 0
        /\ Enabled(response)[1].target_fps_idle # 0}

\* a data request is issued only if its response can still build a cam
OnWebcamRefreshLive ==
    /\ Len(cams) + requests < LiveCams
    /\ OnWebcamRefresh

OnWebcamVisibilityChangeLive(visible) ==
    /\ Len(cams) + requests < LiveCams
    /\ OnWebcamVisibilityChange(visible)

TickLive ==
    /\ cams # <<>>
    /\ \A tm \in BagToSet(timers) : now + TimeStep <= tm.due + MaxLate
    /\ IF now + TimeStep <= MaxTime
       THEN /\ now' = now + TimeStep
            /\ UNCHANGED <<cams, timers>>
       ELSE /\ now' = now + TimeStep - FpsPeriod
            /\ cams' = [c \in CamIds |-> SetBackCam(cams[c])]
            /\ timers' = BagOfAll(SetBackTimer, timers)
    /\ UNCHANGED <<cameraVisible, isPrinting, webcams, loading, requests,
                   completions, atTick, windowed>>

FpsTimerFiresLive(tm) ==
    /\ BagIn(tm, timers)
    /\ tm.fn = "updateFps"
    /\ tm.due <= now
    /\ LET c == tm.cam IN
       /\ cams' = [cams EXCEPT ![c] = UpdateFps(cams[c], now)]
       /\ timers' = (timers (-) SetToBag({tm})) (+) UpdateFpsTimers(c, now)
    /\ UNCHANGED <<now, cameraVisible, isPrinting, webcams, loading,
                   requests, completions, atTick, windowed>>

ImageLoadedLive(c) ==
    /\ c \in loading
    /\ loading' = loading \ {c}
    /\ cams' = [cams EXCEPT ![c] = SnapshotRefreshed(cams[c])]
    /\ timers' = timers (+)
                 SnapshotRefreshedTimers(c, cams[c], ActiveFpsTarget(c), now)
    /\ UNCHANGED <<now, cameraVisible, isPrinting, webcams, requests,
                   completions, atTick, windowed>>

NextLive ==
    \/ OnWebcamRefreshLive /\ UNCHANGED restartVars
    \/ \E visible \in BOOLEAN : OnWebcamVisibilityChangeLive(visible)
          /\ UNCHANGED restartVars
    \/ PrintingChanges /\ UNCHANGED restartVars
    \/ \E response \in LiveResponses : DataResponse(response)
          /\ UNCHANGED restartVars
    \/ TickLive /\ UNCHANGED restartVars
    \/ \E tm \in BagToSet(timers) : PollTimerFires(tm)
          /\ UNCHANGED restartVars
    \/ \E tm \in BagToSet(timers) : FpsTimerFiresLive(tm)
          /\ UNCHANGED restartVars
    \/ \E c \in loading : ImageLoadedLive(c) /\ UNCHANGED restartVars

\* the browser runs every due timer and the clock goes on; every data
\* request is answered and every image load completes
Fairness ==
    /\ WF_vars(TickLive /\ UNCHANGED restartVars)
    /\ WF_vars(\E tm \in BagToSet(timers) :
                  PollTimerFires(tm) /\ UNCHANGED restartVars)
    /\ WF_vars(\E tm \in BagToSet(timers) :
                  FpsTimerFiresLive(tm) /\ UNCHANGED restartVars)
    /\ WF_vars(\E response \in LiveResponses :
                  DataResponse(response) /\ UNCHANGED restartVars)
    /\ WF_vars(\E c \in loading : ImageLoadedLive(c) /\ UNCHANGED restartVars)

SpecLive == Init /\ [][NextLive]_vars /\ Fairness

(* --------------------------- restart buttons ---------------------------- *)
\* the API commands of btnReloadConfigClick, btnFirmwareRestartClick and
\* btnKlipperRestartClick
RestartCommands == {"restart_host", "restart_firmware",
                    "restart_klipper_service"}
\* API commands sent over a run
MaxCommands == 2

\* what comes back for a sent command: done(response) with response.success
\* true or false, or fail(jqXHR) with or without a JSON body
\* (jqXHR.responseJSON is undefined when the server sent none, as when it
\* cannot be reached)
Replies ==
    {[done |-> TRUE, success |-> TRUE, json |-> TRUE],
     [done |-> TRUE, success |-> FALSE, json |-> TRUE],
     [done |-> FALSE, success |-> FALSE, json |-> TRUE],
     [done |-> FALSE, success |-> FALSE, json |-> FALSE]}

\* the done handler: the types of the notifications it creates
OnDone(response) ==
    IF response.success THEN <<"success">> ELSE <<"error">>

\* the fail handler: jqXHR.responseJSON.message is evaluated for the text
\* of the notification before PNotify is called, and throws a TypeError
\* if responseJSON is undefined
OnFail(jqXHR) ==
    IF jqXHR.json THEN <<"error">> ELSE <<>>

\* the notifications of a reply, each with the index of its command
Notify(i, reply) ==
    LET types == IF reply.done THEN OnDone(reply) ELSE OnFail(reply)
    IN  [k \in 1..Len(types) |-> [type |-> types[k], command |-> i]]

\* showConfirmationDialog({message, onproceed})
ShowConfirmationDialog(command) ==
    /\ dialog' = command
    /\ UNCHANGED <<commands, notifications>>

BtnReloadConfigClick == ShowConfirmationDialog("restart_host")
BtnFirmwareRestartClick == ShowConfirmationDialog("restart_firmware")
BtnKlipperRestartClick == ShowConfirmationDialog("restart_klipper_service")

\* the user proceeds: onproceed sends the command of the dialog
Proceed ==
    /\ dialog # "none"
    /\ Len(commands) < MaxCommands
    /\ commands' = Append(commands, [command |-> dialog, reply |-> <<>>])
    /\ dialog' = "none"
    /\ UNCHANGED notifications

\* the user cancels: the dialog closes and onproceed does not run
Cancel ==
    /\ dialog # "none"
    /\ dialog' = "none"
    /\ UNCHANGED <<commands, notifications>>

\* the reply to the i-th command arrives and its handler runs
CommandReplies(i, reply) ==
    /\ i \in 1..Len(commands)
    /\ commands[i].reply = <<>>
    /\ commands' = [commands EXCEPT ![i].reply = <<reply>>]
    /\ notifications' = notifications \o Notify(i, reply)
    /\ UNCHANGED dialog

NextRestart ==
    \/ BtnReloadConfigClick /\ UNCHANGED webcamVars
    \/ BtnFirmwareRestartClick /\ UNCHANGED webcamVars
    \/ BtnKlipperRestartClick /\ UNCHANGED webcamVars
    \/ Proceed /\ UNCHANGED webcamVars
    \/ Cancel /\ UNCHANGED webcamVars
    \/ \E i \in 1..Len(commands), reply \in Replies :
          CommandReplies(i, reply) /\ UNCHANGED webcamVars

SpecRestart == Init /\ [][NextRestart]_vars

TypeOK ==
    /\ now \in 0..MaxTime
    /\ Len(cams) <= MaxCams
    /\ requests \in 0..MaxRequests
    /\ Len(webcams) <= 1

(* ===================== properties of the poller ========================= *)
Max(a, b) == IF a >= b THEN a ELSE b

\* the pending timers of cam c that run fn
TimersOf(fn, c) ==
    LET S == {tm \in BagToSet(timers) : tm.fn = fn /\ tm.cam = c}
    IN  [tm \in S |-> timers[tm]]
PollCount(c) == BagCardinality(TimersOf("refreshSnapshot", c))
FpsCount(c) == BagCardinality(TimersOf("updateFps", c))

\* this step ran cam.snapshotRefreshed on cam c
Completed(c) == completions'[c] = completions[c] + 1
\* this step ran a due cam.updateFps timer of cam c
FpsTick(c) ==
    \E tm \in BagToSet(timers) :
        /\ tm.fn = "updateFps" /\ tm.cam = c
        /\ CopiesIn(tm, timers') < CopiesIn(tm, timers)
\* cam c has neither a pending poll timer nor an image load in flight
Idle(c) == PollCount(c) = 0 /\ c \notin loading
BothRates(w) == w.target_fps # 0 /\ w.target_fps_idle # 0

\* C1 as stated: every completion callback of a cam whose target rate r is
\* non-zero and whose request timestamp is set schedules one poll timer with
\* the delay max(100, 1000/r - elapsed), elapsed being the time since the
\* fetch was issued.
C1_DelayIsMax ==
    [][\A c \in CamIds :
         (Completed(c) /\ ActiveFpsTarget(c) > 0
            /\ cams[c].refreshRequested # Undefined)
         => timers' = timers (+) SetToBag({Timer("refreshSnapshot", c, now,
                Max(100, FullDelay(ActiveFpsTarget(c))
                           - (now - cams[c].refreshRequested[1])))})]_vars

\* C1 as amended: such a completion callback schedules one poll timer with
\* the delay 1000/r - elapsed if elapsed < 1000/r, and 100 otherwise.
C1_DelayIsRestOr100 ==
    [][\A c \in CamIds :
         (Completed(c) /\ ActiveFpsTarget(c) > 0
            /\ cams[c].refreshRequested # Undefined)
         => LET r == ActiveFpsTarget(c)
                elapsed == now - cams[c].refreshRequested[1]
                delay == IF elapsed < 1000 \div r
                         THEN (1000 \div r) - elapsed ELSE 100
            IN  /\ elapsed >= 0
                /\ timers' = timers (+)
                     SetToBag({[fn |-> "refreshSnapshot", cam |-> c,
                                due |-> now + delay, delay |-> delay]})]_vars

\* both cases have happened: a cam with a poll timer for the rest of the
\* period, shorter than 100 ms, and a cam with one for the fallback
C1_Witness ==
    /\ \E tm \in BagToSet(timers) :
           tm.fn = "refreshSnapshot" /\ tm.delay < 100
    /\ \E tm \in BagToSet(timers) :
           tm.fn = "refreshSnapshot" /\ tm.delay = 100

\* C2 as stated: every delay passed to the poll timer is at least 100 ms.
C2_DelayAtLeast100 ==
    \A tm \in BagToSet(timers) : tm.fn = "refreshSnapshot" => tm.delay >= 100

\* C2 as amended: every delay passed to the poll timer is greater than 0.
C2_DelayPositive ==
    \A tm \in BagToSet(timers) : tm.fn = "refreshSnapshot" => tm.delay > 0

\* a poll timer scheduled after a fetch that took its whole period
C2_Witness ==
    \E tm \in BagToSet(timers) :
        /\ tm.fn = "refreshSnapshot"
        /\ tm.delay = MinDelay
        /\ cams[tm.cam].refreshRequested # Undefined
        /\ tm.due - tm.delay - cams[tm.cam].refreshRequested[1]
               >= FullDelay(cams[tm.cam].webcam.target_fps)

\* C3: while the target rate of a cam is 0, no step changes its cache-buster
\* or its request timestamp or adds a poll timer for it (also the step of a
\* poll timer scheduled earlier, at a non-zero rate), and a cam built at
\* rate 0 starts with neither set and with no poll timer.
C3_NoFetchAtRateZero ==
    [][\A c \in 1..Len(cams') :
         IF c \in CamIds
         THEN ActiveFpsTarget(c) = 0 =>
                /\ cams'[c].cacheBuster = cams[c].cacheBuster
                /\ cams'[c].refreshRequested = cams[c].refreshRequested
                /\ PollCount(c)' <= PollCount(c)
         ELSE ActiveFpsTargetOf(cams'[c].webcam, cameraVisible, isPrinting) = 0
              => /\ cams'[c].cacheBuster = Undefined
                 /\ cams'[c].refreshRequested = Undefined
                 /\ PollCount(c)' = 0]_vars

\* a poll timer scheduled at a non-zero rate is due while the rate is 0
C3_Witness ==
    \E c \in CamIds :
        /\ ActiveFpsTarget(c) = 0
        /\ cams[c].cacheBuster # Undefined
        /\ \E tm \in BagToSet(timers) :
               tm.fn = "refreshSnapshot" /\ tm.cam = c /\ tm.due <= now

\* C4: a cam with no pending poll timer and no load in flight stays so and
\* keeps its cache-buster and request timestamp in every step, whatever the
\* target rate becomes; and a cam whose request timestamp is undefined keeps
\* it undefined and gets no poll timer, also from a completion callback at a
\* non-zero rate.
C4_NoSelfResume ==
    [][\A c \in CamIds :
         /\ Idle(c) =>
              /\ Idle(c)'
              /\ cams'[c].cacheBuster = cams[c].cacheBuster
              /\ cams'[c].refreshRequested = cams[c].refreshRequested
         /\ cams[c].refreshRequested = Undefined =>
              /\ cams'[c].refreshRequested = Undefined
              /\ PollCount(c)' = 0]_vars

\* a cam that never issued a fetch got a completion callback and sits idle
\* at a non-zero target rate
C4_Witness ==
    \E c \in CamIds :
        /\ cams[c].adaptive
        /\ completions[c] >= 1
        /\ cams[c].refreshRequested = Undefined
        /\ ActiveFpsTarget(c) # 0
        /\ Idle(c)

\* C5: whenever the visibility flag is false the target rate of every cam
\* is 0, whatever the printing state and the configured rates (so also in
\* the state right after visibility went from true to false).
C5_InvisibleIsZero ==
    ~cameraVisible => \A c \in CamIds : ActiveFpsTarget(c) = 0

\* the viewer is hidden again after a cam with two non-zero rates polled
C5_Witness ==
    /\ ~cameraVisible
    /\ \E c \in CamIds :
           BothRates(cams[c].webcam) /\ cams[c].cacheBuster # Undefined

\* C6 as stated: whenever the viewer is visible the target rate is
\* target_fps if printing and target_fps_idle otherwise, for every pair.
C6_TargetIsConfiguredRate ==
    cameraVisible =>
        \A c \in CamIds :
            ActiveFpsTarget(c) = IF isPrinting THEN cams[c].webcam.target_fps
                                 ELSE cams[c].webcam.target_fps_idle

\* C6 as amended: whenever the viewer is visible the target rate is
\* target_fps if printing and target_fps_idle otherwise when both configured
\* rates are non-zero, and 0 when either of them is 0 or missing.
C6_TargetIsConfiguredRateIfBoth ==
    cameraVisible =>
        \A c \in CamIds :
            ActiveFpsTarget(c) =
                IF ~BothRates(cams[c].webcam) THEN 0
                ELSE IF isPrinting THEN cams[c].webcam.target_fps
                ELSE cams[c].webcam.target_fps_idle

\* visible, with a cam of two non-zero rates and a cam of one
C6_Witness ==
    /\ cameraVisible
    /\ \E c \in CamIds : BothRates(cams[c].webcam)
    /\ \E c \in CamIds :
           /\ ~BothRates(cams[c].webcam)
           /\ cams[c].webcam.target_fps + cams[c].webcam.target_fps_idle # 0

(* ==================== properties of the estimator ======================= *)
\* the number fps has the value n
HasValue(fps, n) == fps.kind = "number" /\ fps.num = n * fps.den

\* C7: every estimator tick after a cam's first sets the observed rate to
\* count / (seconds since the previous tick), zeroes count, records the tick
\* time and schedules the next tick 1000 ms later; over exactly one second
\* the observed rate is count.
C7_UpdateFps ==
    [][\A c \in CamIds :
         (FpsTick(c) /\ cams[c].lastFpsUpdate # Undefined) =>
            LET elapsed == now - cams[c].lastFpsUpdate[1] IN
            /\ elapsed > 0
            /\ cams'[c].currentFps.kind = "number"
            /\ cams'[c].currentFps.num * elapsed
                   = cams[c].count * 1000 * cams'[c].currentFps.den
            /\ cams'[c].count = 0
            /\ cams'[c].lastFpsUpdate = Some(now)
            /\ CopiesIn([fn |-> "updateFps", cam |-> c, due |-> now + 1000,
                         delay |-> 1000], timers') = 1
            /\ FpsCount(c)' = FpsCount(c)
            /\ elapsed = 1000 => HasValue(cams'[c].currentFps, cams[c].count)
      ]_vars

\* a tick read 5 completions over a window of exactly one second
C7_Witness ==
    \E c \in CamIds :
        /\ HasValue(cams[c].currentFps, 5)
        /\ cams[c].currentFps.den = 1000
        /\ SnapshotFps(cams[c].currentFps) = "5 fps"

\* C8 as stated: a tick that closes a window with zero completions yields a
\* non-numeric observed rate, rendered "- fps".
C8_ZeroWindowIsNaN ==
    [][\A c \in CamIds :
         (FpsTick(c) /\ cams[c].lastFpsUpdate # Undefined /\ cams[c].count = 0)
         => /\ IsNaN(cams'[c].currentFps)
            /\ SnapshotFps(cams'[c].currentFps) = "- fps"]_vars

\* C8 as amended: a tick that closes a window with zero completions yields
\* the observed rate 0, rendered "0 fps".
C8_ZeroWindowIsZero ==
    [][\A c \in CamIds :
         (FpsTick(c) /\ cams[c].lastFpsUpdate # Undefined /\ cams[c].count = 0)
         => /\ HasValue(cams'[c].currentFps, 0)
            /\ SnapshotFps(cams'[c].currentFps) = "0 fps"]_vars

\* a cam whose last window had zero completions
C8_Witness ==
    \E c \in CamIds :
        /\ HasValue(cams[c].currentFps, 0)
        /\ cams[c].count = 0
        /\ completions[c] = atTick[c]

\* C9: every cam whose estimator has started has exactly one estimator tick
\* pending, whatever its target rate, also after it has been replaced in
\* the webcams list or the list has been emptied.
C9_OneTickPending ==
    \A c \in CamIds : cams[c].adaptive => FpsCount(c) = 1

\* a replaced cam at target rate 0 that has ticked again since
C9_Witness ==
    \E c \in CamIds :
        /\ cams[c].adaptive
        /\ webcams # <<c>>
        /\ ActiveFpsTarget(c) = 0
        /\ cams[c].currentFps.kind = "number"

\* C10: a cam's count is the number of completion callbacks it received
\* since its most recent tick (since creation before it), and the counts
\* read by its ticks add up to the completions received by then: none is
\* lost, none is counted twice.
C10_CountIsCompletionsSinceTick ==
    \A c \in CamIds :
        /\ cams[c].count = completions[c] - atTick[c]
        /\ windowed[c] = atTick[c]

\* completions in the window before the last tick and after it
C10_Witness ==
    \E c \in CamIds :
        /\ cams[c].count >= 1
        /\ windowed[c] >= 1
        /\ PollCount(c) = 1

(* ================= properties of failure and restart ==================== *)
\* C11: without a completion callback a cam that has no poll timer pending
\* gets none and keeps its cache-buster and request timestamp, in every
\* step: a fetch that never completes is followed by no timer and no fetch.
C11_NoRetry ==
    [][\A c \in CamIds :
         (~Completed(c) /\ PollCount(c) = 0) =>
            /\ PollCount(c)' = 0
            /\ cams'[c].cacheBuster = cams[c].cacheBuster
            /\ cams'[c].refreshRequested = cams[c].refreshRequested]_vars

\* the listed cam issued a fetch a full estimator period ago, at a rate that
\* is still non-zero; no completion came and its load is gone
C11_Witness ==
    \E c \in CamIds :
        /\ webcams = <<c>>
        /\ ActiveFpsTarget(c) # 0
        /\ cams[c].refreshRequested # Undefined
        /\ completions[c] = 0
        /\ Idle(c)
        /\ now >= cams[c].refreshRequested[1] + FpsPeriod

\* C12 as stated: every step that flips the visibility flag or the printing
\* state issues a data request.
C12_FlipsRequestData ==
    [][(cameraVisible' # cameraVisible \/ isPrinting' # isPrinting)
         => requests' = requests + 1]_vars

\* C12 as amended: every step that flips the visibility flag issues a data
\* request; a step that flips the printing state issues none, and leaves
\* every cam's target rate zero if it was zero and non-zero if it was not.
C12_VisibilityFlipRequestsData ==
    [][/\ cameraVisible' # cameraVisible => requests' = requests + 1
       /\ isPrinting' # isPrinting =>
            /\ requests' = requests
            /\ \A c \in CamIds :
                   (ActiveFpsTarget(c) = 0) <=> (ActiveFpsTarget(c)' = 0)]_vars

\* the viewer became visible while a cam was listed, and the request that
\* the flip issued is outstanding
C12_Witness ==
    /\ cameraVisible
    /\ requests >= 1
    /\ \E c \in CamIds : webcams = <<c>> /\ cams[c].cacheBuster = Undefined
                         /\ BothRates(cams[c].webcam)

(* ===================== properties of the target rate ==================== *)
\* C14 as stated: the target rate of every cam is >= 0 in every reachable
\* state, whatever rates the response carried and whatever the visibility
\* and the printing state.
C14_TargetNonNegative ==
    \A c \in CamIds : ActiveFpsTarget(c) >= 0

\* a cam built from a response with a negative rate polls at that rate: its
\* target is negative and its completion callback has scheduled the next
\* fetch with the fallback delay
C14_Witness ==
    \E c \in CamIds :
        /\ ActiveFpsTarget(c) < 0
        /\ completions[c] >= 1
        /\ \E tm \in BagToSet(timers) :
               tm.fn = "refreshSnapshot" /\ tm.cam = c /\ tm.delay = MinDelay

(* ======================= properties of the display ====================== *)
\* C15: the rate string of every cam with an estimator is "- fps" exactly
\* when its observed rate is undefined or NaN, and otherwise is an integer
\* n followed by " fps", where n is an integer nearest to the observed rate
\* (no further from it than one half).
C15_RateString ==
    \A c \in CamIds :
        cams[c].adaptive =>
            LET fps == cams[c].currentFps
                shown == SnapshotFps(fps)
            IN  /\ (shown = "- fps") <=> (fps.kind \in {"undefined", "NaN"})
                /\ shown # "- fps" =>
                       /\ fps.kind = "number"
                       /\ \E n \in 0..completions[c] :
                              /\ shown = ToString(n) \o " fps"
                              /\ 2 * n * fps.den <= 2 * fps.num + fps.den
                              /\ 2 * n * fps.den >= 2 * fps.num - fps.den

\* an observed rate that is not an integer: a late tick closed a window
\* with completions in it
C15_Witness ==
    \E c \in CamIds :
        /\ cams[c].adaptive
        /\ cams[c].currentFps.kind = "number"
        /\ cams[c].currentFps.num % cams[c].currentFps.den # 0
        /\ SnapshotFps(cams[c].currentFps) # "0 fps"

\* the base URL of a cam, by its service
BaseUrl(c) ==
    IF cams[c].webcam.service = Adaptive THEN cams[c].webcam.snapshot_url
    ELSE cams[c].webcam.stream_url
\* the number a sequence of decimal digits denotes, -1 if it is not one
RECURSIVE ParseDigits(_)
ParseDigits(text) ==
    IF text = <<>> THEN 0 - 1
    ELSE LET last == text[Len(text)]
             rest == SubSeq(text, 1, Len(text) - 1)
             d == IF \E k \in 1..10 : DigitChars[k] = last
                  THEN (CHOOSE k \in 1..10 : DigitChars[k] = last) - 1
                  ELSE 0 - 1
             high == ParseDigits(rest)
         IN  IF d < 0 THEN 0 - 1
             ELSE IF rest = <<>> THEN d
             ELSE IF high < 0 THEN 0 - 1
             ELSE 10 * high + d
\* url is base, then the separator sep, then "_=", then something
HasParameter(url, base, sep) ==
    /\ Len(url) > Len(base) + 3
    /\ SubSeq(url, 1, Len(base)) = base
    /\ SubSeq(url, Len(base) + 1, Len(base) + 3) = <<sep, "_", "=">>
\* what follows the "_=" of the parameter
ParameterValue(url, base) == SubSeq(url, Len(base) + 4, Len(url))
\* the separator the claim gives the base URL
Separator(base) == IF "?" \in {base[i] : i \in 1..Len(base)} THEN "&" ELSE "?"

C17_StampIsCacheBuster ==
    \A c \in CamIds : cams[c].refreshRequested = cams[c].cacheBuster

\* a cam that has completed a fetch and has its next one, issued later by a
\* poll timer, in flight
C17_Witness ==
    \E c \in CamIds :
        /\ completions[c] >= 1
        /\ c \in loading
        /\ cams[c].refreshRequested # Undefined
        /\ cams[c].refreshRequested[1] >= TimeStep

\* fetches of cam c that its poller issued and that are in flight: the load
\* of its image element, once refreshSnapshot has set its URL
InFlight(c) ==
    IF c \in loading /\ cams[c].refreshRequested # Undefined THEN 1 ELSE 0

\* C18: for every cam, the pending poll timers plus the poller-issued
\* fetches in flight are at most 1 in every reachable state, every fetch
\* producing at most one completion callback.
C18_OneTimerOrFetch ==
    \A c \in CamIds : PollCount(c) + InFlight(c) <= 1

\* two cams, the replaced one with a poll timer pending and the listed one
\* with a fetch in flight, both at a non-zero rate
C18_Witness ==
    \E c, d \in CamIds :
        /\ c # d
        /\ webcams = <<d>>
        /\ PollCount(c) = 1 /\ InFlight(c) = 0
        /\ PollCount(d) = 0 /\ InFlight(d) = 1
        /\ completions[d] >= 1
        /\ ActiveFpsTarget(c) # 0

(* ===================== properties of the webcams list =================== *)
\* C19: whatever else is outstanding, a step changes the webcams list or
\* builds a cam only by delivering the response of a data request, and the
\* list it leaves is built from that response alone: empty and no cam
\* built, or exactly the cam just built, of an enabled entry.  So the list
\* is always that of the response delivered last.
C19_LastResponseWins ==
    [][(webcams' # webcams \/ Len(cams') # Len(cams)) =>
         /\ requests >= 1 /\ requests' = requests - 1
         /\ \/ /\ cams' = cams
               /\ webcams' = <<>>
            \/ /\ Len(cams') = Len(cams) + 1
               /\ SubSeq(cams', 1, Len(cams)) = cams
               /\ cams'[Len(cams')].webcam.enabled
               /\ webcams' = <<Len(cams')>>]_vars

\* two responses with different first webcams were delivered at the same
\* instant, the list holds the cam of the second, and a further request is
\* still outstanding
C19_Witness ==
    /\ Len(cams) = 2
    /\ webcams = <<2>>
    /\ requests >= 1
    /\ cams[1].webcam # cams[2].webcam
    /\ cams[1].adaptive /\ cams[2].adaptive
    /\ cams[1].lastFpsUpdate = cams[2].lastFpsUpdate

\* C20: a cam that is not the one in the webcams list never gets into it,
\* receives no completion callback and gets no new poll timer; it has at
\* most one poll timer pending, and its cache-buster changes only in a step
\* that uses that timer up.  So a replaced cam updates its cache-buster at
\* most once more.
C20_ReplacedCamStops ==
    [][\A c \in CamIds :
         webcams # <<c>> =>
            /\ webcams' # <<c>>
            /\ ~Completed(c)
            /\ c \notin loading'
            /\ PollCount(c) <= 1
            /\ PollCount(c)' <= PollCount(c)
            /\ cams'[c].cacheBuster # cams[c].cacheBuster =>
                   PollCount(c)' = PollCount(c) - 1]_vars

\* the first cam was replaced while its poll timer was pending; the timer
\* has fired since, at a non-zero rate, and set its cache-buster; no timer
\* of it is left
C20_Witness ==
    /\ Len(cams) = 2
    /\ webcams = <<2>>
    /\ cams[2].adaptive
    /\ cams[2].currentFps.kind = "NaN"
    /\ cams[1].cacheBuster # Undefined
    /\ cams[1].cacheBuster[1] > cams[2].lastFpsUpdate[1]
    /\ completions[1] >= 1
    /\ PollCount(1) = 0

(* ======================= properties of the long run ===================== *)
\* this step issued a fetch for the cam that is listed after it: a
\* response built the cam at a non-zero rate, or its poll timer fired at one
IssuesFetch ==
    \E c \in 1..Len(cams') :
        /\ webcams' = <<c>>
        /\ c \in loading'
        /\ now' = now
        /\ cams'[c].cacheBuster = Some(now)
        /\ c \in CamIds => PollCount(c)' < PollCount(c)

\* C13: if from some time on the viewer is visible for good, with every
\* response carrying an enabled adaptive webcam with both rates non-zero
\* and every data request and image load completing, then the listed cam
\* issues a fetch again and again, for ever.
C13_PollsForever ==
    (<>[]cameraVisible) => []<><<IssuesFetch>>_vars

\* the viewer is visible and the listed cam has polled through a whole
\* estimator window: its observed rate is a positive number, and its next
\* fetch is scheduled
C13_Witness ==
    /\ cameraVisible
    /\ \E c \in CamIds :
           /\ webcams = <<c>>
           /\ PollCount(c) = 1
           /\ cams[c].currentFps.kind = "number"
           /\ cams[c].currentFps.num > 0
           /\ now < cams[c].lastFpsUpdate[1] + TimeStep

(* ==================== properties of the estimator's count =============== *)
\* C21: every completion callback of a cam raises its count by exactly one
\* and leaves its observed rate alone, whatever its target rate and whether
\* or not its poller ever issued a fetch.
C21_CompletionCounts ==
    [][\A c \in CamIds :
         Completed(c) =>
            /\ cams'[c].count = cams[c].count + 1
            /\ cams'[c].currentFps = cams[c].currentFps]_vars

\* a cam whose poller never issued a fetch and whose target rate is 0 shows
\* an observed rate above 0: its tick counted the load of its first image
C21_Witness ==
    \E c \in CamIds :
        /\ cams[c].refreshRequested = Undefined
        /\ ActiveFpsTarget(c) = 0
        /\ cams[c].currentFps.kind = "number"
        /\ cams[c].currentFps.num > 0

(* ==================== properties of the data request ==================== *)
\* C22: a step that uses up a data request without building a cam and
\* without changing the webcams list changes nothing else: the cams, the
\* pending timers, the image loads, the flags and the clock stay as they
\* are, and exactly that one request is gone (none is issued in its place).
C22_FailureChangesNothing ==
    [][(requests' < requests /\ Len(cams') = Len(cams) /\ webcams' = webcams)
         => /\ requests' = requests - 1
            /\ cams' = cams
            /\ timers' = timers
            /\ loading' = loading
            /\ cameraVisible' = cameraVisible
            /\ isPrinting' = isPrinting
            /\ now' = now]_vars

\* the viewer was hidden after the listed cam had started polling, and the
\* data request of that change is gone without a new cam and with the list
\* intact: it failed.  The cam and its estimator tick are still there.
C22_Witness ==
    /\ ~cameraVisible
    /\ requests = 0
    /\ Len(cams) = 1
    /\ webcams = <<1>>
    /\ cams[1].cacheBuster # Undefined
    /\ FpsCount(1) = 1

\* a response carries no enabled webcam
NoneEnabled(response) == \A i \in 1..Len(response) : ~response[i].enabled
\* the first enabled webcam of a response that has one, in its order
FirstEnabled(response) ==
    response[CHOOSE i \in 1..Len(response) :
                 /\ response[i].enabled
                 /\ \A j \in 1..(i - 1) : ~response[j].enabled]

\* C23: the webcams list never holds more than one cam, and the delivery of
\* any response leaves it empty, with webcamAvailable false, if the response
\* has no enabled webcam, and otherwise holding exactly one cam, built in
\* that step from the first enabled webcam in the order of the response.
C23_ListOfFirstEnabled ==
    [][/\ Len(webcams) <= 1
       /\ requests' = requests - 1 =>
            \A response \in Responses :
                DataResponse(response) =>
                    IF NoneEnabled(response)
                    THEN webcams' = <<>> /\ ~WebcamAvailable'
                    ELSE /\ webcams' = <<Len(cams) + 1>>
                         /\ WebcamAvailable'
                         /\ Len(cams') = Len(cams) + 1
                         /\ cams'[Len(cams')].webcam = FirstEnabled(response)]_vars

\* two responses listed a stream cam and an adaptive cam in turn, and a
\* third, without an enabled webcam, emptied the list
C23_Witness ==
    /\ Len(cams) = 2
    /\ webcams = <<>>
    /\ ~WebcamAvailable
    /\ cams[1].webcam.service # cams[2].webcam.service
    /\ loading = {}

\* C24: a step that builds a cam for a webcam whose service is not the
\* adaptive one creates no timer, sets no cache-buster and starts no image
\* poll: besides the request it uses up it changes only the webcams list,
\* which then holds the new cam.  Such a cam never has a timer, a
\* cache-buster, a count or an observed rate afterwards either.
C24_StreamCamStartsNothing ==
    [][/\ \A c \in CamIds :
            cams[c].webcam.service # Adaptive =>
               /\ PollCount(c) = 0 /\ FpsCount(c) = 0
               /\ cams[c].cacheBuster = Undefined
               /\ cams[c].refreshRequested = Undefined
               /\ cams[c].count = 0
               /\ cams[c].currentFps = NoNumber
       /\ (Len(cams') = Len(cams) + 1
           /\ cams'[Len(cams')].webcam.service # Adaptive) =>
               /\ timers' = timers
               /\ cams' = Append(cams, NewCam(cams'[Len(cams')].webcam))
               /\ webcams' = <<Len(cams')>>
               /\ loading' = {}
               /\ now' = now
               /\ cameraVisible' = cameraVisible
               /\ isPrinting' = isPrinting]_vars

\* a stream cam has been the listed cam for a whole estimator period, with
\* the viewer visible, and nothing of the poller or the estimator exists
C24_Witness ==
    /\ Len(cams) = 1
    /\ webcams = <<1>>
    /\ cams[1].webcam.service = "mjpegstreamer"
    /\ cameraVisible
    /\ now >= FpsPeriod
    /\ timers = EmptyBag

\* C25: a step that builds an adaptive cam leaves it with a non-numeric
\* observed rate, shown as "- fps", the tick time set and the next tick
\* 1000 ms away.  The observed rate changes only in a tick of the cam; its
\* next tick comes no sooner than 1000 ms after the previous one and sets a
\* number, not shown as "- fps".
C25_NewCamShowsDash ==
    [][/\ (Len(cams') = Len(cams) + 1
           /\ cams'[Len(cams')].webcam.service = Adaptive) =>
               LET cam == cams'[Len(cams')] IN
               /\ cam.currentFps = NaN
               /\ SnapshotFps(cam.currentFps) = "- fps"
               /\ cam.lastFpsUpdate = Some(now)
               /\ \E tm \in BagToSet(timers') :
                      /\ tm.fn = "updateFps" /\ tm.cam = Len(cams')
                      /\ tm.due = now + FpsPeriod
       /\ \A c \in CamIds :
            /\ cams'[c].currentFps # cams[c].currentFps => FpsTick(c)
            /\ FpsTick(c) =>
                  /\ now >= cams[c].lastFpsUpdate[1] + FpsPeriod
                  /\ cams'[c].currentFps.kind = "number"
                  /\ SnapshotFps(cams'[c].currentFps) # "- fps"]_vars

\* a cam built after the clock started has completed a fetch and still
\* shows "- fps": its second tick is not due yet
C25_Witness ==
    \E c \in CamIds :
        /\ cams[c].adaptive
        /\ cams[c].currentFps = NaN
        /\ SnapshotFps(cams[c].currentFps) = "- fps"
        /\ cams[c].lastFpsUpdate[1] > 0
        /\ now > cams[c].lastFpsUpdate[1]
        /\ cams[c].count >= 1

(* ===================== properties of the restart buttons ================ *)
\* the notifications created for the i-th command
NotificationsOf(i) ==
    SelectSeq(notifications, LAMBDA n : n.command = i)

\* C26 as stated: a command is sent only in a step in which the user
\* proceeds in the dialog of that command, and every command that has its
\* reply has exactly one notification, of type "success" if the request
\* succeeded and the response reports success, of type "error" otherwise.
C26_OneNotificationPerCommand ==
    [][/\ Len(commands') > Len(commands) =>
            /\ dialog # "none"
            /\ commands' = Append(commands, [command |-> dialog, reply |-> <<>>])
            /\ dialog' = "none"
       /\ \A i \in 1..Len(commands) :
            commands[i].reply # <<>> =>
               LET reply == commands[i].reply[1] IN
               /\ Len(NotificationsOf(i)) = 1
               /\ NotificationsOf(i)[1].type =
                     IF reply.done /\ reply.success THEN "success"
                     ELSE "error"]_vars

\* a confirmed command failed without a JSON body, and no notification was
\* created for it
C26_Witness ==
    \E i \in 1..Len(commands) :
        /\ commands[i].command \in RestartCommands
        /\ commands[i].reply = <<[done |-> FALSE, success |-> FALSE,
                                   json |-> FALSE]>>
        /\ NotificationsOf(i) = <<>>
        /\ dialog = "none"
====
